---- MODULE Spec2Model ----
(***************************************************************************)
(* Model of src/src/core-js-dates-tasks.js: a catalogue of pure date      *)
(* calculations.  A behaviour is one call of one function: the state      *)
(* records the function invoked, its argument and its result.  The search *)
(* loop of getNextFridayThe13th is modelled iteration by iteration.       *)
(*                                                                         *)
(* A JavaScript Date is an instant: milliseconds since the epoch.  The    *)
(* instant is kept as the pair [day, ms] with value day*86400000 + ms and *)
(* 0 <= ms < 86400000.  A string is a sequence of one-character strings.  *)
(* A Number that is not an integer (a count of days with a fraction) is   *)
(* kept as [days, ms], meaning days + ms/86400000.  arg and ret hold the   *)
(* name of the function before the value, the values of the functions     *)
(* being of different types.  An argument given as ISO 8601 text is the    *)
(* instant new Date(text) denotes; the 'DD-MM-YYYY' texts of               *)
(* getWorkSchedule are texts, split and converted as the code does.        *)
(***************************************************************************)
EXTENDS Integers, Sequences, FiniteSets, TLC

VARIABLES pc, fn, arg, ret, year, month, res

vars == <<pc, fn, arg, ret, year, month, res>>

----------------------------------------------------------------------------
(* Bounds of the inputs *)

\* calendar years the date inputs are drawn from
YearLo == 2023
YearSpan == 2
YearHi == YearLo + YearSpan - 1

\* years given to isLeapYear: LeapLo .. LeapLo + LeapSpan
LeapLo == 1896
LeapSpan == 210

\* getWorkSchedule: the periods start on 25 September of YearLo or up to
\* ScheduleDays days later (October, the turn of the year, 29 February 2024)
ScheduleDays == 170
\* getWorkSchedule: longest period (end - start in days) and pattern sizes
MaxPeriod == 5
MaxWork == 2
MaxOff == 2

\* getNextFriday / getCountDaysOnPeriod / formatDate: days after WindowStart
WindowDays == 9

\* offsets of local time from UTC, in minutes east (fixed, no DST)
TZOffsets == {-300, 0, 180}

\* times of day, in ms since midnight
SampleTimes == {0, 1, 43200000, 86399999}
SampleMinSec == {0, 8, 9, 10, 59}

----------------------------------------------------------------------------
(* The Date object of the runtime *)

MsPerDay == 86400000

\* days since 1970-01-01 of the civil date y-m-d (m in 1..12)
DaysFromCivil(y, m, d) ==
  LET yy  == IF m <= 2 THEN y - 1 ELSE y
      era == yy \div 400
      yoe == yy - era * 400
      mp  == IF m > 2 THEN m - 3 ELSE m + 9
      doy == (153 * mp + 2) \div 5 + d - 1
      doe == yoe * 365 + yoe \div 4 - yoe \div 100 + doy
  IN era * 146097 + doe - 719468

\* the civil date [year, month (0-based, as getUTCMonth), date] of a day number
CivilFromDays(z) ==
  LET zz  == z + 719468
      era == zz \div 146097
      doe == zz - era * 146097
      yoe == (doe - doe \div 1460 + doe \div 36524 - doe \div 146096) \div 365
      doy == doe - (365 * yoe + yoe \div 4 - yoe \div 100)
      mp  == (5 * doy + 2) \div 153
      d   == doy - (153 * mp + 2) \div 5 + 1
      m   == IF mp < 10 THEN mp + 3 ELSE mp - 9
      y   == yoe + era * 400 + (IF m <= 2 THEN 1 ELSE 0)
  IN [year |-> y, month |-> m - 1, date |-> d]

\* MakeDay of the language: month m0 is 0-based, month and day may overflow
MakeDay(y, m0, d) == DaysFromCivil(y + m0 \div 12, (m0 % 12) + 1, 1) + d - 1

\* an instant from a day number and a (possibly out of range) ms part
MakeDate(day, ms) == [day |-> day + ms \div MsPerDay, ms |-> ms % MsPerDay]

\* new Date(Date.UTC(y, m0, d))
DateUTC(y, m0, d) == MakeDate(MakeDay(y, m0, d), 0)

\* new Date(y, m0, d): midnight in local time, tz minutes east of UTC
DateLocal(y, m0, d, tz) == MakeDate(MakeDay(y, m0, d), 0 - tz * 60000)

getUTCFullYear(date) == CivilFromDays(date.day).year
getUTCMonth(date) == CivilFromDays(date.day).month
getUTCDate(date) == CivilFromDays(date.day).date
\* 0 = Sunday; 1970-01-01 was a Thursday
getUTCDay(date) == (date.day + 4) % 7
getUTCHours(date) == date.ms \div 3600000
getUTCMinutes(date) == (date.ms \div 60000) % 60
getUTCSeconds(date) == (date.ms \div 1000) % 60

\* The local accessors.  A Date that a function reads only through its local
\* accessors is kept on the local timeline (day and ms of the local wall
\* clock, the offset from UTC being fixed), where they read as the UTC ones.
getFullYear(date) == CivilFromDays(date.day).year
getMonth(date) == CivilFromDays(date.day).month
getDay(date) == (date.day + 4) % 7
getHours(date) == date.ms \div 3600000
getMinutes(date) == (date.ms \div 60000) % 60
getSeconds(date) == (date.ms \div 1000) % 60
\* new Date(y, m0, d) on the local timeline
DateOf(y, m0, d) == MakeDate(MakeDay(y, m0, d), 0)

\* dateTwo - dateOne >= 0
NotBefore(dateTwo, dateOne) ==
  \/ dateTwo.day > dateOne.day
  \/ dateTwo.day = dateOne.day /\ dateTwo.ms >= dateOne.ms

----------------------------------------------------------------------------
(* Strings *)

Digit(n) == <<"0", "1", "2", "3", "4", "5", "6", "7", "8", "9">>[n + 1]

\* `${n}` for an integer n >= 0
RECURSIVE Str(_)
Str(n) == IF n < 10 THEN <<Digit(n)>> ELSE Str(n \div 10) \o <<Digit(n % 10)>>

DigitValue(c) == CHOOSE n \in 0..9 : Digit(n) = c

\* Number(s) for a string of decimal digits
RECURSIVE ToNumber(_)
ToNumber(s) ==
  IF Len(s) = 0 THEN 0
  ELSE ToNumber(SubSeq(s, 1, Len(s) - 1)) * 10 + DigitValue(s[Len(s)])

\* s.split(sep) for a one-character separator
RECURSIVE Split(_, _)
Split(s, sep) ==
  IF \A k \in 1..Len(s) : s[k] # sep THEN <<s>>
  ELSE LET k == CHOOSE j \in 1..Len(s) :
                  s[j] = sep /\ \A h \in 1..(j - 1) : s[h] # sep
       IN <<SubSeq(s, 1, k - 1)>> \o Split(SubSeq(s, k + 1, Len(s)), sep)

----------------------------------------------------------------------------
(* The functions of the module *)

\* getTime: date is a Date read through its local accessors
getTime(date) ==
  LET h == getHours(date)
      m == getMinutes(date)
      s == getSeconds(date)
      hours   == IF h < 9 THEN <<"0">> \o Str(h) ELSE Str(h)
      minutes == IF m < 9 THEN <<"0">> \o Str(m) ELSE Str(m)
      secunds == IF s < 9 THEN <<"0">> \o Str(s) ELSE Str(s)
  IN hours \o <<":">> \o minutes \o <<":">> \o secunds

getNextFriday_DayLE5(date) ==
  LET day == getUTCDay(date)
      daysTillFriday == IF day <= 5 THEN 5 - day ELSE 7 - day + 5
  IN MakeDate(date.day, date.ms + 86400000 * daysTillFriday)

getNextFriday(date) ==
  LET day == getUTCDay(date)
      daysTillFriday == IF day < 5 THEN 5 - day ELSE 7 - day + 5
  IN MakeDate(date.day, date.ms + 86400000 * daysTillFriday)

\* result / (1000*60*60*24) + 1, as days + ms/86400000
getCountDaysOnPeriod(dateStart, dateEnd) ==
  LET result == MakeDate(dateEnd.day - dateStart.day, dateEnd.ms - dateStart.ms)
  IN [days |-> result.day + 1, ms |-> result.ms]

formatDate(date) ==
  LET day  == getUTCDate(date)
      mon  == getUTCMonth(date)
      yr   == getUTCFullYear(date)
      h    == getUTCHours(date)
      m    == getUTCMinutes(date)
      s    == getUTCSeconds(date)
      timeOfDay == IF h >= 12 THEN <<"P", "M">> ELSE <<"A", "M">>
      hours   == IF h > 12 THEN h - 12 ELSE h
      minutes == IF m < 9 THEN <<"0">> \o Str(m) ELSE Str(m)
      secunds == IF s < 9 THEN <<"0">> \o Str(s) ELSE Str(s)
  IN Str(mon + 1) \o <<"/">> \o Str(day) \o <<"/">> \o Str(yr) \o <<",", " ">>
       \o Str(hours) \o <<":">> \o minutes \o <<":">> \o secunds
       \o <<" ">> \o timeOfDay

\* Math.ceil(x / 7) for x = days + ms/86400000
CeilDiv7(x) == IF x.ms = 0 THEN (x.days + 6) \div 7 ELSE x.days \div 7 + 1

\* date is a Date read through its local accessors
getWeekNumberByDate(date) ==
  LET yr == getFullYear(date)
      firstDayOfYear == DateOf(yr, 0, 1)
      diff == getCountDaysOnPeriod(firstDayOfYear, date)
  IN CeilDiv7(diff)

isLeapYear(date) ==
  LET yr == getFullYear(date)
  IN yr % 4 = 0

\* getWorkSchedule, lines 355-371: the for loop over one block of working
\* days; st = [date, scheduleArr], tz the offset of local time
RECURSIVE WorkBlock(_, _, _, _)
WorkBlock(st, endDate, i, tz) ==
  IF i <= 0 THEN st
  ELSE IF NotBefore(endDate, st.date)
       THEN LET yr  == getUTCFullYear(st.date)
                mon == getUTCMonth(st.date)
                day == getUTCDate(st.date)
                printDay   == IF day < 10 THEN <<"0">> \o Str(day) ELSE Str(day)
                printMonth == IF mon < 10 THEN <<"0">> \o Str(mon + 1)
                                          ELSE Str(mon + 1)
            IN WorkBlock(
                 [date |-> DateLocal(yr, mon, day + 1, tz),
                  scheduleArr |-> Append(st.scheduleArr,
                      printDay \o <<"-">> \o printMonth \o <<"-">> \o Str(yr))],
                 endDate, i - 1, tz)
       ELSE WorkBlock(st, endDate, i - 1, tz)

\* getWorkSchedule, lines 354-376: the while loop
RECURSIVE WorkLoop(_, _, _, _, _)
WorkLoop(st, endDate, countWorkDays, countOffDays, tz) ==
  IF NotBefore(endDate, st.date)
  THEN LET b   == WorkBlock(st, endDate, countWorkDays, tz)
           yr  == getUTCFullYear(b.date)
           mon == getUTCMonth(b.date)
           day == getUTCDate(b.date)
       IN WorkLoop([date |-> DateUTC(yr, mon, day + countOffDays),
                    scheduleArr |-> b.scheduleArr],
                   endDate, countWorkDays, countOffDays, tz)
  ELSE st.scheduleArr

\* tz: the offset of the local time of the process, read by new Date(y, m, d)
getWorkSchedule(period, countWorkDays, countOffDays, tz) ==
  LET dateArr    == Split(period.start, "-")
      date       == DateUTC(ToNumber(dateArr[3]), ToNumber(dateArr[2]) - 1,
                            ToNumber(dateArr[1]))
      endDateArr == Split(period.end, "-")
      endDate    == DateUTC(ToNumber(endDateArr[3]), ToNumber(endDateArr[2]) - 1,
                            ToNumber(endDateArr[1]))
  IN WorkLoop([date |-> date, scheduleArr |-> <<>>], endDate,
              countWorkDays, countOffDays, tz)

----------------------------------------------------------------------------
(* Inputs *)

Pad2(n) == IF n < 10 THEN <<"0">> \o Str(n) ELSE Str(n)

\* the 'DD-MM-YYYY' text of a day number
DDMMYYYY(dn) ==
  LET c == CivilFromDays(dn)
  IN Pad2(c.date) \o <<"-">> \o Pad2(c.month + 1) \o <<"-">> \o Str(c.year)

FirstDay == DaysFromCivil(YearLo, 1, 1)
LastDay == DaysFromCivil(YearHi, 12, 31)
InputDays == FirstDay..LastDay
ScheduleStarts ==
  DaysFromCivil(YearLo, 9, 25)..(DaysFromCivil(YearLo, 9, 25) + ScheduleDays)

\* a window of days that holds every weekday
WindowStart == DaysFromCivil(2024, 2, 3)
Window == WindowStart..(WindowStart + WindowDays)

HMS(h, m, s) == ((h * 60 + m) * 60 + s) * 1000

\* the value of res before the search finds a date (-1 in the source)
NoDate == [day |-> -1, ms |-> -1]

----------------------------------------------------------------------------
(* The calls *)

Init ==
  /\ pc = "idle"
  /\ fn = "none"
  /\ arg = <<>>
  /\ ret = <<>>
  /\ year = 0
  /\ month = 0
  /\ res = NoDate

Returned(f, a, r) ==
  /\ pc = "idle"
  /\ pc' = "done"
  /\ fn' = f
  /\ arg' = <<f, a>>
  /\ ret' = <<f, r>>
  /\ UNCHANGED <<year, month, res>>

CallGetTime ==
  /\ pc = "idle"
  /\ \E h \in 0..23, m \in 0..59, s \in SampleMinSec :
    LET date == MakeDate(FirstDay, HMS(h, m, s))
    IN Returned("getTime", date, getTime(date))

CallGetNextFriday ==
  /\ pc = "idle"
  /\ \E d \in Window, t \in SampleTimes :
    LET date == MakeDate(d, t)
    IN Returned("getNextFriday", date, getNextFriday(date))

CallGetCountDaysOnPeriod ==
  /\ pc = "idle"
  /\ \E d1 \in Window, d2 \in Window, t1 \in SampleTimes, t2 \in SampleTimes :
    LET dateStart == MakeDate(d1, t1)
        dateEnd   == MakeDate(d2, t2)
    IN /\ NotBefore(dateEnd, dateStart)
       /\ Returned("getCountDaysOnPeriod", <<dateStart, dateEnd>>,
                   getCountDaysOnPeriod(dateStart, dateEnd))

CallFormatDate ==
  /\ pc = "idle"
  /\ \E d \in Window, h \in 0..23, m \in SampleMinSec, s \in SampleMinSec :
    LET date == MakeDate(d, HMS(h, m, s))
    IN Returned("formatDate", date, formatDate(date))

CallGetWeekNumberByDate ==
  /\ pc = "idle"
  /\ \E d \in InputDays :
    LET date == MakeDate(d, 0)
    IN Returned("getWeekNumberByDate", date, getWeekNumberByDate(date))

CallIsLeapYear ==
  /\ pc = "idle"
  /\ \E y \in LeapLo..(LeapLo + LeapSpan) :
    LET date == DateOf(y, 2, 1)
    IN Returned("isLeapYear", date, isLeapYear(date))

CallGetWorkSchedule ==
  /\ pc = "idle"
  /\ \E d \in ScheduleStarts, n \in 0..MaxPeriod, w \in 1..MaxWork, o \in 1..MaxOff,
     tz \in TZOffsets :
    LET period == [start |-> DDMMYYYY(d), end |-> DDMMYYYY(d + n)]
    IN Returned("getWorkSchedule",
                <<period, w, o, tz>>,
                getWorkSchedule(period, w, o, tz))

\* getNextFridayThe13th, lines 268-270
CallGetNextFridayThe13th ==
  /\ pc = "idle"
  /\ \E d \in InputDays :
    LET date == MakeDate(d, 0)
    IN /\ pc = "idle"
       /\ pc' = "f13"
       /\ fn' = "getNextFridayThe13th"
       /\ arg' = <<"getNextFridayThe13th", date>>
       /\ ret' = <<>>
       /\ year' = getFullYear(date)
       /\ month' = getMonth(date)
       /\ res' = NoDate

F13Advance_MonthLE12 ==
  IF month <= 12
  THEN /\ month' = month + 1
       /\ year' = year
  ELSE /\ month' = 0
       /\ year' = year + 1

\* the month index after one unsuccessful test, lines 276-281
F13Advance ==
  IF month < 12
  THEN /\ month' = month + 1
       /\ year' = year
  ELSE /\ month' = 0
       /\ year' = year + 1

\* one iteration of the while loop, lines 271-282
F13Iterate ==
  /\ pc = "f13"
  /\ res = NoDate
  /\ LET testDate == DateOf(year, month, 13)
         day == getDay(testDate)
     IN IF day = 5
        THEN /\ res' = testDate
             /\ UNCHANGED <<year, month>>
        ELSE /\ F13Advance
             /\ UNCHANGED res
  /\ UNCHANGED <<pc, fn, arg, ret>>

\* line 283
F13Return ==
  /\ pc = "f13"
  /\ res # NoDate
  /\ ret' = <<fn, res>>
  /\ pc' = "done"
  /\ year' = 0
  /\ month' = 0
  /\ res' = NoDate
  /\ UNCHANGED <<fn, arg>>

Next ==
  \/ CallGetTime
  \/ CallGetNextFriday
  \/ CallGetCountDaysOnPeriod
  \/ CallFormatDate
  \/ CallGetWeekNumberByDate
  \/ CallIsLeapYear
  \/ CallGetWorkSchedule
  \/ CallGetNextFridayThe13th
  \/ F13Iterate
  \/ F13Return

Spec == Init /\ [][Next]_vars

\* the loop runs on: an iteration that can be taken is taken
FairSpec == Spec /\ WF_vars(F13Iterate) /\ WF_vars(F13Return)

----------------------------------------------------------------------------
(* Reference notions the properties are stated with *)

IsDigit(c) == c \in {"0", "1", "2", "3", "4", "5", "6", "7", "8", "9"}

\* the day number a 'DD-MM-YYYY' text (or one with a longer month field) names
ParseDay(s) ==
  LET p == Split(s, "-")
  IN DaysFromCivil(ToNumber(p[3]), ToNumber(p[2]), ToNumber(p[1]))

\* the working days from day dn through day last, the period starting at first
RECURSIVE WorkingDays(_, _, _, _, _)
WorkingDays(dn, first, last, w, o) ==
  IF dn > last THEN <<>>
  ELSE IF (dn - first) % (w + o) < w
       THEN <<dn>> \o WorkingDays(dn + 1, first, last, w, o)
       ELSE WorkingDays(dn + 1, first, last, w, o)

\* two digits, '-', a month 01..12, '-', the year
IsDDMMYYYY(s) ==
  /\ Len(s) >= 7
  /\ IsDigit(s[1]) /\ IsDigit(s[2]) /\ s[3] = "-"
  /\ IsDigit(s[4]) /\ IsDigit(s[5]) /\ s[6] = "-"
  /\ ToNumber(SubSeq(s, 4, 5)) \in 1..12
  /\ \A k \in 7..Len(s) : IsDigit(s[k])

\* 2024-02-16 is a Friday (the example of getNextFriday)
IsFriday(dn) == (dn - DaysFromCivil(2024, 2, 16)) % 7 = 0

IsFridayThe13th(dn) == IsFriday(dn) /\ CivilFromDays(dn).date = 13

IsGregorianLeap(y) == (y % 4 = 0 /\ y % 100 # 0) \/ y % 400 = 0

\* ISO 8601: weeks start on Monday, week 1 holds the year's first Thursday
ISOWeek(dn) ==
  LET wd == ((dn - DaysFromCivil(2024, 2, 12)) % 7) + 1
      th == dn - wd + 4
      y  == CivilFromDays(th).year
  IN (th - DaysFromCivil(y, 1, 1)) \div 7 + 1

\* the hour field of the text of formatDate: between ', ' and the first ':'
DisplayedHour(s) ==
  LET a == CHOOSE k \in 1..Len(s) : s[k] = " " /\ \A h \in 1..(k - 1) : s[h] # " "
      b == CHOOSE k \in 1..Len(s) : s[k] = ":" /\ \A h \in 1..(k - 1) : s[h] # ":"
  IN SubSeq(s, a + 1, b - 1)

Meridiem(s) == SubSeq(s, Len(s) - 1, Len(s))

Done(f) == pc = "done" /\ fn = f

\* the argument (the list of arguments, when several) and the result
Arg == arg[2]
Ret == ret[2]

----------------------------------------------------------------------------
(* Properties *)

\* C1: getWorkSchedule returns exactly the days d of start..end with
\* (d - start) mod (countWorkDays + countOffDays) < countWorkDays, each once,
\* in ascending order.
C1_ScheduleIsCycle ==
  Done("getWorkSchedule") =>
    LET first == ParseDay(Arg[1].start)
        last  == ParseDay(Arg[1].end)
    IN [k \in 1..Len(Ret) |-> ParseDay(Ret[k])]
         = WorkingDays(first, first, last, Arg[2], Arg[3])

\* C2: every element getWorkSchedule returns is a 'DD-MM-YYYY' text: day and
\* month of two digits, the month in 01..12, then the year.
C2_ScheduleFormat ==
  Done("getWorkSchedule") =>
    \A k \in 1..Len(Ret) : Len(Ret[k]) = 10 /\ IsDDMMYYYY(Ret[k])

\* C3: the result of getNextFriday is strictly later than the input, a Friday,
\* at the same time of day, 1 to 7 whole days later, and exactly 7 days later
\* when the input is a Friday.
C3_NextFriday ==
  Done("getNextFriday") =>
    /\ Ret.day > Arg.day
    /\ IsFriday(Ret.day)
    /\ Ret.ms = Arg.ms
    /\ Ret.day - Arg.day \in 1..7
    /\ (IsFriday(Arg.day) => Ret.day - Arg.day = 7)

\* the input is a Friday, not at midnight, and the call has returned
C3_Witness ==
  /\ Done("getNextFriday")
  /\ IsFriday(Arg.day)
  /\ Arg.ms = 43200000
  /\ Ret = [day |-> Arg.day + 7, ms |-> 43200000]

\* C4: getNextFridayThe13th returns the earliest Friday the 13th that is not
\* earlier than the given date.
C4_NextFridayThe13th ==
  Done("getNextFridayThe13th") =>
    /\ IsFridayThe13th(Ret.day)
    /\ Ret.day >= Arg.day
    /\ \A dn \in Arg.day..(Ret.day - 1) : ~IsFridayThe13th(dn)

\* C5: getTime returns 'HH:MM:SS', every field zero-padded to two digits.
C5_TimePadded ==
  Done("getTime") =>
    Ret = Pad2(getHours(Arg)) \o <<":">> \o Pad2(getMinutes(Arg))
            \o <<":">> \o Pad2(getSeconds(Arg))

\* C6: formatDate shows the hour on a 12-hour clock: 0 as 12 AM, 1..11 as
\* themselves AM, 12 as 12 PM, 13..23 as hour-12 PM.
C6_TwelveHourClock ==
  Done("formatDate") =>
    LET h == Arg.ms \div 3600000
        shown == ToNumber(DisplayedHour(Ret))
    IN /\ shown \in 1..12
       /\ shown = (IF h % 12 = 0 THEN 12 ELSE h % 12)
       /\ Meridiem(Ret) = (IF h < 12 THEN <<"A", "M">> ELSE <<"P", "M">>)

\* C7: isLeapYear is true exactly for the years divisible by 4 and not by 100,
\* or divisible by 400.
C7_LeapYear ==
  Done("isLeapYear") => (Ret <=> IsGregorianLeap(CivilFromDays(Arg.day).year))

\* C8: getWeekNumberByDate returns the ISO 8601 week number of the date.
C8_ISOWeekNumber ==
  Done("getWeekNumberByDate") => Ret = ISOWeek(Arg.day)

\* C9: for dateStart <= dateEnd, getCountDaysOnPeriod returns an integer, the
\* number of days from the start day through the end day, both counted; 1
\* when dateStart = dateEnd.
C9_CountDaysInclusive ==
  Done("getCountDaysOnPeriod") =>
    /\ Ret.ms = 0
    /\ Ret.days = Arg[2].day - Arg[1].day + 1
    /\ (Arg[1] = Arg[2] => Ret.days = 1)

\* the 13th the loop is about to test, and the calendar month it lies in
Candidate == MakeDay(year, month, 13)
CandidateMonth ==
  CivilFromDays(Candidate).year * 12 + CivilFromDays(Candidate).month

\* C10: the search loop of getNextFridayThe13th terminates: the month index
\* stays in 0..12, the tested 13th never moves back, no calendar month is
\* skipped, and a Friday the 13th is eventually found.
C10_SearchTerminates ==
  /\ [](pc = "f13" => month \in 0..12)
  /\ [][pc = "f13" /\ pc' = "f13" =>
          /\ Candidate' >= Candidate
          /\ CandidateMonth' - CandidateMonth \in {0, 1}]_vars
  /\ (pc = "f13" ~> (pc = "f13" /\ res # NoDate /\ IsFridayThe13th(res.day)))

\* the search has passed the end of a year and found its date in the next
C10_Witness ==
  /\ pc = "f13"
  /\ res # NoDate
  /\ getFullYear(res) = getFullYear(Arg) + 1
  /\ year = getFullYear(Arg) + 1

====
